---- MODULE Spec2Model ----
(***************************************************************************)
(* Conversation and presence engine of the chat backend: the message      *)
(* store and its cursor pagination (services/message.service.js), the     *)
(* send pipeline (validation middleware, controllers/message.controller), *)
(* and the socket presence registry (lib/socket.js).                      *)
(***************************************************************************)
EXTENDS Integers, Sequences, FiniteSets, TLC

VARIABLES
    store,          \* Message collection, in the order the writes landed
    clock,          \* Date.now() of the server process, in milliseconds
    userSocketMap,  \* lib/socket.js: userId -> socket id (NoSocket: no key)
    sockState,      \* per socket: "new" | "connected" | "closed"
    onlineUsers,    \* payload of the last "getOnlineUsers" broadcast
    events,         \* "newMessage" events emitted: [to, payload]
    req,            \* send requests in flight, per slot
    lastQuery,      \* last getMessagesBetweenUsers call and its result
    pager,          \* a client walking a conversation page by page
    lastPartners,   \* last getChatPartners call and its result
    broadcasts,     \* number of "getOnlineUsers" broadcasts emitted so far
    http,           \* per request slot: its response and its timeout timer
    lastDelete      \* last deleteMessage call and its outcome

vars == <<lastDelete, store, clock, userSocketMap, sockState, onlineUsers, events, req,
          lastQuery, pager, lastPartners, broadcasts, http>>

----------------------------------------------------------------------------
(* Bounds of the model *)

MaxClock == 1
MaxMsgs == 2
MaxPagedMsgs == 3
MaxPartnerMsgs == 3
MaxTextLen == 2
SmallStore == 3
BigStore == 102

----------------------------------------------------------------------------
(* Program constants *)

defaultLimit == 50
maxLimit == 100
maxTextChars == 2000

----------------------------------------------------------------------------
(* Identities *)

Users == {"u1", "u2", "u3"}
UnknownUser == "u9"
MalformedId == "zz"

\* mongoose ObjectId values and their toString()
ObjectId(u) == [oid |-> u]

IdString(o) == o.oid

\* param('id').isMongoId()
IsMongoId(id) == id # MalformedId

NoSocket == "none"
Sockets == {"s1", "s2", "s3"}
\* socket.userId, set by the socket authentication middleware
SockUser == [s \in Sockets |-> IF s = "s1" THEN "u1" ELSE "u2"]

----------------------------------------------------------------------------
(* Small helpers *)

Min(a, b) == IF a < b THEN a ELSE b

Abs(n) == IF n < 0 THEN -n ELSE n

Range(s) == {s[i] : i \in DOMAIN s}

ReverseNot(s) == s

\* Array.prototype.reverse
Reverse(s) == [i \in 1..Len(s) |-> s[Len(s) + 1 - i]]

----------------------------------------------------------------------------
(* Cursor encoding: createdAt.toISOString() and new Date(before) *)

NoCursor == [kind |-> "null"]

ToISOString(t) == [kind |-> "iso", ms |-> t]

ParseDate(c) == c.ms

----------------------------------------------------------------------------
(* The limit query parameter and parseInt *)

NaN == [isNaN |-> TRUE, n |-> 0]

Number(n) == [isNaN |-> FALSE, n |-> n]

RawAbsent == [kind |-> "absent"]
RawJunk == [kind |-> "junk"]
RawNum(n) == [kind |-> "num", n |-> n]

\* parseInt of the query-string value
ParseInt(raw) == IF raw.kind = "num" THEN Number(raw.n) ELSE NaN

\* parseInt(options.limit) || config.pagination.defaultLimit
OrDefault(parsed) ==
    IF parsed.isNaN \/ parsed.n = 0 THEN defaultLimit ELSE parsed.n

\* if (limit > maxLimit) limit = maxLimit
ClampLimit(l) == IF l > maxLimit THEN maxLimit ELSE l

EffectiveLimit(raw) == ClampLimit(OrDefault(ParseInt(raw)))

----------------------------------------------------------------------------
(* Message.find(query).sort({createdAt: -1}).limit(limit + 1) *)

InConversationOfEither(m, a, b) ==
    \/ m.senderId \in {ObjectId(a), ObjectId(b)}
    \/ m.receiverId \in {ObjectId(a), ObjectId(b)}

InConversationReverseOnly(m, a, b) ==
    m.senderId = ObjectId(b) /\ m.receiverId = ObjectId(a)

\* $or: [{senderId: a, receiverId: b}, {senderId: b, receiverId: a}]
InConversation(m, a, b) ==
    \/ (m.senderId = ObjectId(a) /\ m.receiverId = ObjectId(b))
    \/ (m.senderId = ObjectId(b) /\ m.receiverId = ObjectId(a))

BeforeCursorLte(m, before) ==
    before = NoCursor \/ m.createdAt <= ParseDate(before)

\* if (before) query.createdAt = { $lt: new Date(before) }
BeforeCursor(m, before) ==
    before = NoCursor \/ m.createdAt < ParseDate(before)

Eligible(st, a, b, before) ==
    {i \in DOMAIN st : InConversation(st[i], a, b) /\ BeforeCursor(st[i], before)}

\* Documents with equal createdAt come back in an order the database does
\* not promise; tb is the order it happens to use among them.
TieBreaks == {"idAsc", "idDesc"}

Precedes(st, i, j, tb) ==
    \/ st[i].createdAt > st[j].createdAt
    \/ /\ st[i].createdAt = st[j].createdAt
       /\ IF tb = "idAsc" THEN i < j ELSE i > j

SortDesc(st, E, tb) ==
    SortSeq(SelectSeq([i \in 1..Len(st) |-> i], LAMBDA i : i \in E),
            LAMBDA i, j : Precedes(st, i, j, tb))

\* cursor.limit(n): 0 is no limit, a negative n is |n| in a single batch
FindLimit(sorted, n) ==
    IF n = 0 THEN sorted ELSE SubSeq(sorted, 1, Min(Abs(n), Len(sorted)))

FetchCountNoExtra(limit) == limit

\* .limit(limit + 1): one more than the page, to see whether more remain
FetchCount(limit) == limit + 1

\* const hasMore = messages.length > limit
HasMore(len, limit) == len > limit

\* if (hasMore) messages.pop()
PopIf(hasMore, found) ==
    IF hasMore /\ Len(found) > 0 THEN SubSeq(found, 1, Len(found) - 1) ELSE found

NextCursor(st, hasMore, page) ==
    IF hasMore /\ Len(page) > 0
    THEN ToISOString(st[page[Len(page)]].createdAt)
    ELSE NoCursor

\* MessageService.getMessagesBetweenUsers; messages are store positions, oldest first
GetMessagesBetweenUsers(st, a, b, rawLimit, before, tb) ==
    LET limit   == EffectiveLimit(rawLimit)
        found   == FindLimit(SortDesc(st, Eligible(st, a, b, before), tb), FetchCount(limit))
        hasMore == HasMore(Len(found), limit)
        page    == PopIf(hasMore, found)
    IN  [messages   |-> Reverse(page),
         hasMore    |-> hasMore,
         nextCursor |-> NextCursor(st, hasMore, page)]

----------------------------------------------------------------------------
(* Message content: text is a string of characters, an image is one of    *)
(* the kinds of string the code tells apart                                *)

Chars == {"a", " "}

EmptyText == <<>>

RECURSIVE TrimLeft(_)
TrimLeft(t) == IF t # <<>> /\ Head(t) = " " THEN TrimLeft(Tail(t)) ELSE t

RECURSIVE TrimRight(_)
TrimRight(t) ==
    IF t # <<>> /\ t[Len(t)] = " " THEN TrimRight(SubSeq(t, 1, Len(t) - 1)) ELSE t

\* String.prototype.trim, the validator's trim() and the schema's trim: true
Trim(t) == TrimRight(TrimLeft(t))

Texts(n) == UNION {[1..k -> Chars] : k \in 0..n}

NoImage == ""
Images == {NoImage, "blank", "notImage", "dataUrl", "hugeDataUrl"}

ImgTrim(img) == IF img = "blank" THEN NoImage ELSE img

\* /^data:image\/(jpeg|jpg|png|gif|webp);base64,/
ImgMatches(img) == img \in {"dataUrl", "hugeDataUrl"}

\* (image.length * 3) / 4 > 5 * 1024 * 1024
ImgTooBig(img) == img = "hugeDataUrl"

\* uploadResponse.secure_url
SecureUrl == "url"

----------------------------------------------------------------------------
(* validateSendMessage: the sanitised body and whether a rule failed *)

\* body(f).optional({ checkFalsy: true }).trim()
SanitizeText(t) == IF t = EmptyText THEN t ELSE Trim(t)

SanitizeImage(img) == IF img = NoImage THEN img ELSE ImgTrim(img)

\* req.body.text && req.body.text.trim().length > 0
HasText(t) == t # EmptyText /\ Len(Trim(t)) > 0

HasImage(img) == img # NoImage /\ ImgTrim(img) # NoImage

RouteValidationTextOnly(id, text, image) ==
    LET t   == SanitizeText(text)
        img == SanitizeImage(image)
    IN  [ok    |-> /\ IsMongoId(id)
                   /\ (text = EmptyText \/ Len(t) <= maxTextChars)
                   /\ (image = NoImage \/ ImgMatches(img))
                   /\ HasText(t),
         text  |-> t,
         image |-> img]

NoRouteValidation(id, text, image) == [ok |-> TRUE, text |-> text, image |-> image]

\* router.post("/send/:id", validateSendMessage, sendMessage)
RouteValidation(id, text, image) ==
    LET t   == SanitizeText(text)
        img == SanitizeImage(image)
    IN  [ok    |-> /\ IsMongoId(id)
                   /\ (text = EmptyText \/ Len(t) <= maxTextChars)
                   /\ (image = NoImage \/ ImgMatches(img))
                   /\ (HasText(t) \/ HasImage(img)),
         text  |-> t,
         image |-> img]

\* MessageService.sendMessage: if (!text && !image) throw BadRequestError
ServiceAcceptsContent(text, image) == ~(text = EmptyText /\ image = NoImage)

\* Message.create: text: text || "" under the schema's trim, image: image || ""
NewMessage(id, sender, receiver, text, image, now) ==
    [id         |-> id,
     senderId   |-> ObjectId(sender),
     receiverId |-> ObjectId(receiver),
     text       |-> Trim(text),
     image      |-> image,
     createdAt  |-> now]

\* message.toObject() with _id, senderId and receiverId as strings
ToPlain(m) ==
    [m EXCEPT !.senderId = IdString(@), !.receiverId = IdString(@)]

----------------------------------------------------------------------------
(* Initial values of the variables *)

NoQuery == [valid |-> FALSE]

NoPager == [active |-> FALSE, a |-> "", b |-> "", rawLimit |-> RawAbsent,
            cursor |-> NoCursor, pages |-> <<>>, sizes |-> <<>>,
            before |-> NoCursor, last |-> [messages |-> <<>>, hasMore |-> FALSE,
                                           nextCursor |-> NoCursor]]

NoBody == [kind |-> "none"]

ErrorBody(msg) == [kind |-> "error", message |-> msg]

MessageBody(m) == [kind |-> "message", message |-> m]

\* A request slot: the request's inputs, where its handler stands, and its
\* response; reg0 and stable record the receiver's registry entry when the
\* request arrived and whether it has stayed the same since
FreeReq ==
    [pc |-> "free", sender |-> "", receiver |-> "", rawText |-> EmptyText,
     rawImage |-> NoImage, text |-> EmptyText, image |-> NoImage,
     createdAt |-> 0, msg |-> 0, status |-> 0, body |-> NoBody,
     reg0 |-> NoSocket, stable |-> TRUE, pushed |-> "none"]

Reqs == {"r1", "r2"}

\* What requestTimeout and the response hold for a request: the state of the
\* timer, res.headersSent, whether "finish" and "close" were emitted, the
\* status that was sent, the number of responses sent, whether a later send
\* threw, and the number of "Request timeout" warnings logged
IdleHttp ==
    [timer |-> "idle", headersSent |-> FALSE, finished |-> FALSE, closed |-> FALSE,
     status |-> 0, body |-> NoBody, sent |-> 0, failedSend |-> FALSE, warned |-> 0,
     handlerAt |-> "free"]

\* const timer = setTimeout(..., timeout); next()
NewHttp == [IdleHttp EXCEPT !.timer = "armed"]

\* res.status(status).json(body): throws once the headers were sent
TrySend(h, status, body) ==
    IF h.headersSent
    THEN [h EXCEPT !.failedSend = TRUE]
    ELSE [h EXCEPT !.headersSent = TRUE, !.status = status, !.body = body,
                   !.sent = @ + 1]

\* the response of a handler step that ends the handler
AfterStep(h, q) == IF q.pc = "done" THEN TrySend(h, q.status, q.body) ELSE h

InitStore == store = <<>>

InitRest ==
    /\ clock = 0
    /\ userSocketMap = [u \in Users |-> NoSocket]
    /\ sockState = [s \in Sockets |-> "new"]
    /\ onlineUsers = {}
    /\ events = {}
    /\ req = [r \in Reqs |-> FreeReq]
    /\ lastQuery = NoQuery
    /\ lastPartners = NoQuery
    /\ lastDelete = NoQuery
    /\ broadcasts = 0
    /\ http = [r \in Reqs |-> IdleHttp]
    /\ pager = NoPager

----------------------------------------------------------------------------
(* lib/socket.js: the presence registry *)

\* getReceiverSocketId(userId): userSocketMap[userId]
GetReceiverSocketId(map, id) == IF id \in DOMAIN map THEN map[id] ELSE NoSocket

KeysWithDeleted(map) == DOMAIN map

\* Object.keys(userSocketMap)
Keys(map) == {u \in DOMAIN map : map[u] # NoSocket}

InFlight(r) == req[r].pc \notin {"free", "done"}

\* the requests in flight whose receiver's entry changes lose `stable`
NoteRegistry(map) ==
    [r \in Reqs |->
        IF /\ InFlight(r)
           /\ GetReceiverSocketId(map, req[r].receiver)
                # GetReceiverSocketId(userSocketMap, req[r].receiver)
        THEN [req[r] EXCEPT !.stable = FALSE]
        ELSE req[r]]

SetEntryIfAbsent(map, u, s) == IF map[u] = NoSocket THEN [map EXCEPT ![u] = s] ELSE map

\* userSocketMap[userId] = socket.id
SetEntry(map, u, s) == [map EXCEPT ![u] = s]

\* io.on("connection"): register, then broadcast the online users
Connect(s) ==
    /\ sockState[s] = "new"
    /\ LET map == SetEntry(userSocketMap, SockUser[s], s)
       IN  /\ userSocketMap' = map
           /\ onlineUsers' = Keys(map)
           /\ broadcasts' = broadcasts + 1
           /\ req' = NoteRegistry(map)
    /\ sockState' = [sockState EXCEPT ![s] = "connected"]
    /\ UNCHANGED <<lastDelete, http, lastPartners, store, clock, events, lastQuery, pager>>

DeleteEntryNever(map, u, s) == map

\* delete userSocketMap[userId]
DeleteEntry(map, u, s) == [map EXCEPT ![u] = NoSocket]

\* socket.on("disconnect"): remove, then broadcast the online users
Disconnect(s) ==
    /\ sockState[s] = "connected"
    /\ LET map == DeleteEntry(userSocketMap, SockUser[s], s)
       IN  /\ userSocketMap' = map
           /\ onlineUsers' = Keys(map)
           /\ broadcasts' = broadcasts + 1
           /\ req' = NoteRegistry(map)
    /\ sockState' = [sockState EXCEPT ![s] = "closed"]
    /\ UNCHANGED <<lastDelete, http, lastPartners, store, clock, events, lastQuery, pager>>

\* Date.now() advances
Tick ==
    /\ clock < MaxClock
    /\ clock' = clock + 1
    /\ UNCHANGED <<lastDelete, http, lastPartners, broadcasts, store, userSocketMap, sockState, onlineUsers, events, req,
                   lastQuery, pager>>

----------------------------------------------------------------------------
(* POST /api/messages/send/:id: validateSendMessage, the sendMessage       *)
(* controller and MessageService.sendMessage, one action per stretch of    *)
(* code between two awaits                                                  *)

Finish(q, status, body) == [q EXCEPT !.pc = "done", !.status = status, !.body = body]

\* the call of messageService.sendMessage up to its first await
EnterService(q) ==
    IF ServiceAcceptsContent(q.text, q.image)
    THEN [q EXCEPT !.pc = "find"]
    ELSE Finish(q, 400, ErrorBody("Message must contain text or image"))

\* the controller up to its first await
EnterController(q) ==
    IF q.image = NoImage THEN EnterService(q)
    ELSE IF ~ImgMatches(q.image)
         THEN Finish(q, 400, ErrorBody("Invalid image format. Expected base64-encoded image."))
    ELSE IF ImgTooBig(q.image)
         THEN Finish(q, 400, ErrorBody("Image size exceeds 5MB limit."))
    ELSE [q EXCEPT !.pc = "upload"]

SlotsBusy == Cardinality({r \in Reqs : InFlight(r)})

\* the model takes no more sends once cap messages are stored or under way
Room(cap) == Len(store) + SlotsBusy < cap

\* express.json({ limit: "5mb" }): an image that the controller's size check
\* would refuse has more than 5 * 1024 * 1024 * 4 / 3 characters, so its body
\* is over the parser's limit
BodyTooLarge(text, image) == ImgTooBig(image)

\* a send request arrives: the body parser, validation, then the controller;
\* the parser's error goes to errorHandler, which answers 500
Start(r, sender, receiver, text, image) ==
    /\ ~InFlight(r)
    /\ LET v == RouteValidation(receiver, text, image)
           q == [FreeReq EXCEPT !.sender = sender, !.receiver = receiver,
                                !.rawText = text, !.rawImage = image,
                                !.text = v.text, !.image = v.image,
                                !.reg0 = GetReceiverSocketId(userSocketMap, receiver)]
       IN  req' = [req EXCEPT ![r] =
                     IF BodyTooLarge(text, image)
                     THEN Finish(q, 500, ErrorBody("request entity too large"))
                     ELSE IF v.ok THEN EnterController(q)
                     ELSE Finish(q, 400, ErrorBody("Validation failed"))]
    /\ http' = [http EXCEPT ![r] = AfterStep(NewHttp, req'[r])]
    /\ UNCHANGED <<lastDelete, lastPartners, broadcasts, store, clock, userSocketMap, sockState, onlineUsers, events,
                   lastQuery, pager>>

\* cloudinary.uploader.upload resolves
UploadDone(r) ==
    /\ req[r].pc = "upload"
    /\ req' = [req EXCEPT ![r] = EnterService([req[r] EXCEPT !.image = SecureUrl])]
    /\ http' = [http EXCEPT ![r] = AfterStep(@, req'[r])]
    /\ UNCHANGED <<lastDelete, lastPartners, broadcasts, store, clock, userSocketMap, sockState, onlineUsers, events,
                   lastQuery, pager>>

\* cloudinary.uploader.upload rejects
UploadFail(r) ==
    /\ req[r].pc = "upload"
    /\ req' = [req EXCEPT ![r] = Finish(req[r], 500, ErrorBody("Failed to upload image."))]
    /\ http' = [http EXCEPT ![r] = AfterStep(@, req'[r])]
    /\ UNCHANGED <<lastDelete, lastPartners, broadcasts, store, clock, userSocketMap, sockState, onlineUsers, events,
                   lastQuery, pager>>

ReceiverExistsAlways(id) == TRUE

\* const receiver = await User.findById(receiverId); if (!receiver) ...
ReceiverExists(id) == id \in Users

IsSelfNever(sender, receiver) == FALSE

\* senderId.toString() === receiverId.toString()
IsSelf(sender, receiver) == IdString(ObjectId(sender)) = IdString(ObjectId(receiver))

\* User.findById resolves: receiver check, self check, Message.create is called
FindDone(r) ==
    /\ req[r].pc = "find"
    /\ req' = [req EXCEPT ![r] =
                 IF ~ReceiverExists(req[r].receiver)
                 THEN Finish(req[r], 404, ErrorBody("Receiver not found"))
                 ELSE IF IsSelf(req[r].sender, req[r].receiver)
                 THEN Finish(req[r], 400, ErrorBody("Cannot send messages to yourself"))
                 ELSE [req[r] EXCEPT !.pc = "create", !.createdAt = clock]]
    /\ http' = [http EXCEPT ![r] = AfterStep(@, req'[r])]
    /\ UNCHANGED <<lastDelete, lastPartners, broadcasts, store, clock, userSocketMap, sockState, onlineUsers, events,
                   lastQuery, pager>>

CreateDoneNoWrite(r) ==
    /\ req[r].pc = "create"
    /\ LET m == NewMessage(Len(store) + 1, req[r].sender, req[r].receiver,
                           req[r].text, req[r].image, req[r].createdAt)
       IN  req' = [req EXCEPT ![r] = [req[r] EXCEPT !.pc = "respond", !.msg = m.id,
                                                    !.body = MessageBody(ToPlain(m))]]
    /\ UNCHANGED <<lastDelete, http, lastPartners, broadcasts, store, clock, userSocketMap, sockState,
                   onlineUsers, events, lastQuery, pager>>

CreateDoneUnlessTimedOut(r) ==
    /\ req[r].pc = "create"
    /\ http[r].timer # "fired"
    /\ LET m == NewMessage(Len(store) + 1, req[r].sender, req[r].receiver,
                           req[r].text, req[r].image, req[r].createdAt)
       IN  /\ store' = Append(store, m)
           /\ req' = [req EXCEPT ![r] = [req[r] EXCEPT !.pc = "respond", !.msg = m.id,
                                                        !.body = MessageBody(ToPlain(m))]]
    /\ UNCHANGED <<lastDelete, http, lastPartners, broadcasts, clock, userSocketMap, sockState,
                   onlineUsers, events, lastQuery, pager>>

\* Message.create resolves: the document is in the collection
CreateDone(r) ==
    /\ req[r].pc = "create"
    /\ LET m == NewMessage(Len(store) + 1, req[r].sender, req[r].receiver,
                           req[r].text, req[r].image, req[r].createdAt)
       IN  /\ store' = Append(store, m)
           /\ req' = [req EXCEPT ![r] = [req[r] EXCEPT !.pc = "respond", !.msg = m.id,
                                                        !.body = MessageBody(ToPlain(m))]]
    /\ UNCHANGED <<lastDelete, http, lastPartners, broadcasts, clock, userSocketMap, sockState, onlineUsers, events,
                   lastQuery, pager>>

StoreFailAfterWrite(r) ==
    /\ req[r].pc \in {"find", "create"}
    /\ req' = [req EXCEPT ![r] = Finish(req[r], 500, ErrorBody("Internal Server Error"))]
    /\ http' = [http EXCEPT ![r] = AfterStep(@, req'[r])]
    /\ store' = IF req[r].pc = "create"
                THEN Append(store, NewMessage(Len(store) + 1, req[r].sender, req[r].receiver,
                                              req[r].text, req[r].image, req[r].createdAt))
                ELSE store
    /\ UNCHANGED <<lastDelete, lastPartners, broadcasts, clock, userSocketMap, sockState, onlineUsers,
                   events, lastQuery, pager>>

\* a store operation of the service rejects: asyncHandler hands it to errorHandler
StoreFail(r) ==
    /\ req[r].pc \in {"find", "create"}
    /\ req' = [req EXCEPT ![r] = Finish(req[r], 500, ErrorBody("Internal Server Error"))]
    /\ http' = [http EXCEPT ![r] = AfterStep(@, req'[r])]
    /\ UNCHANGED <<lastDelete, lastPartners, broadcasts, store, clock, userSocketMap, sockState, onlineUsers, events,
                   lastQuery, pager>>

EmitDropped(evs, sock, payload) == evs

EmitToAll(evs, sock, payload) == evs \cup {[to |-> s, payload |-> payload] : s \in Sockets}

\* io.to(receiverSocketId).emit("newMessage", message)
EmitTo(evs, sock, payload) == evs \cup {[to |-> sock, payload |-> payload]}

PushDropsResponse(q, pushed) == IF pushed = "failed" THEN 500 ELSE 201

\* the status of the response after the push was tried
StatusAfterPush(q, pushed) == 201

\* the service returned: push to the receiver's socket inside try/catch, then
\* res.status(201).json(message); throws is whether io.to(...).emit throws
RespondRetrying(r, throws) ==
    /\ req[r].pc = "respond"
    /\ LET sock   == GetReceiverSocketId(userSocketMap, req[r].receiver)
           pushed == IF sock = NoSocket THEN "none"
                     ELSE IF throws THEN "failed" ELSE "sent"
       IN  /\ throws => sock # NoSocket
           /\ events' = IF pushed = "sent"
                        THEN EmitTo(events, sock, req[r].body.message)
                        ELSE events
           /\ req' = [req EXCEPT ![r] =
                        IF pushed = "failed"
                        THEN [req[r] EXCEPT !.pushed = pushed]
                        ELSE [req[r] EXCEPT !.pc = "done", !.pushed = pushed,
                                            !.status = StatusAfterPush(req[r], pushed)]]
    /\ http' = [http EXCEPT ![r] = AfterStep(@, req'[r])]
    /\ UNCHANGED <<lastDelete, lastPartners, broadcasts, store, clock, userSocketMap, sockState,
                   onlineUsers, lastQuery, pager>>

Respond(r, throws) ==
    /\ req[r].pc = "respond"
    /\ LET sock   == GetReceiverSocketId(userSocketMap, req[r].receiver)
           pushed == IF sock = NoSocket THEN "none"
                     ELSE IF throws THEN "failed" ELSE "sent"
       IN  /\ throws => sock # NoSocket
           /\ events' = IF pushed = "sent"
                        THEN EmitTo(events, sock, req[r].body.message)
                        ELSE events
           /\ req' = [req EXCEPT ![r] =
                        [req[r] EXCEPT !.pc = "done", !.pushed = pushed,
                                       !.status = StatusAfterPush(req[r], pushed)]]
    /\ http' = [http EXCEPT ![r] = AfterStep(@, req'[r])]
    /\ UNCHANGED <<lastDelete, lastPartners, broadcasts, store, clock, userSocketMap, sockState, onlineUsers,
                   lastQuery, pager>>

----------------------------------------------------------------------------
(* Stores a running system can hold, for the checks of the page query *)

Other(u) == IF u = "u1" THEN "u2" ELSE "u1"

Patterns == {"distinct", "pairs", "triples", "swapped"}

Stamp(i, pattern) ==
    CASE pattern = "distinct" -> i
      [] pattern = "pairs"    -> (i + 1) \div 2
      [] pattern = "triples"  -> (i + 2) \div 3
      [] OTHER                -> IF i % 2 = 1 THEN i + 1 ELSE i - 1

BuildStore(n, pattern, noise) ==
    [i \in 1..n |->
        LET third == noise /\ i % 3 = 0
            snd   == IF i % 2 = 1 THEN "u1" ELSE "u2"
        IN  [id         |-> i,
             senderId   |-> ObjectId(snd),
             receiverId |-> ObjectId(IF third THEN "u3" ELSE Other(snd)),
             text       |-> <<"a">>,
             image      |-> "",
             createdAt  |-> Stamp(i, pattern)]]

BigSizes == (defaultLimit - 1 .. defaultLimit + 1) \cup (maxLimit - 1 .. BigStore)

StoreFamily ==
    {BuildStore(n, p, z) : n \in 0..SmallStore, p \in Patterns, z \in BOOLEAN}
    \cup {BuildStore(n, "pairs", FALSE) : n \in BigSizes}

RawLimits ==
    {RawAbsent, RawJunk} \cup {RawNum(n) : n \in {0, -5, -1, 1, 2, 50, 100, 101, 1000}}

QueryPairs == {<<"u1", "u2">>, <<"u2", "u1">>, <<"u1", "u3">>}

Befores(st) ==
    {NoCursor} \cup {ToISOString(t) : t \in 1..2}
    \cup {ToISOString(st[i].createdAt) : i \in {Len(st)} \cap DOMAIN st}

\* a JSON array as a response body
ArrayBody(items) == [kind |-> "array", items |-> items]

\* the getMessagesByUserId controller: res.status(200).json(result.messages)
GetMessagesByUserId(st, myId, otherUserId, rawLimit, before, tb) ==
    LET result == GetMessagesBetweenUsers(st, myId, otherUserId, rawLimit, before, tb)
    IN  [status |-> 200,
         body   |-> ArrayBody([k \in 1..Len(result.messages) |->
                                  ToPlain(st[result.messages[k]])])]

\* A GET /api/messages/:id request; the service's result and the response
\* are kept for inspection
Query(a, b, rawLimit, before, tb) ==
    /\ lastQuery' = [valid |-> TRUE, a |-> a, b |-> b, rawLimit |-> rawLimit,
                     before |-> before, tb |-> tb,
                     result |-> GetMessagesBetweenUsers(store, a, b, rawLimit, before, tb),
                     response |-> GetMessagesByUserId(store, a, b, rawLimit, before, tb)]
    /\ UNCHANGED <<lastDelete, http, lastPartners, broadcasts, store, clock, userSocketMap, sockState, onlineUsers, events,
                   req, pager>>

InitPage == store \in StoreFamily /\ InitRest

\* one call per store: the calls do not change the store
NextPage ==
    /\ ~lastQuery.valid
    /\ \E p \in QueryPairs, l \in RawLimits, c \in Befores(store), tb \in TieBreaks :
           Query(p[1], p[2], l, c, tb)

SpecPage == InitPage /\ [][NextPage]_vars

----------------------------------------------------------------------------
(* The running server: connections come and go while sends are handled *)

Init == InitStore /\ InitRest

Senders == {"u1", "u2"}
Receivers == {"u1", "u2"}

\* one send at a time, so that the connections' interleavings stay checkable
OneSlot == {"r1"}

Next ==
    \/ Tick
    \/ \E s \in Sockets : Connect(s)
    \/ \E s \in Sockets : Disconnect(s)
    \/ \E r \in OneSlot, a \in Senders :
          \E b \in Receivers \ {a} : Room(MaxMsgs) /\ Start(r, a, b, <<"a">>, NoImage)
    \/ \E r \in OneSlot : FindDone(r)
    \/ \E r \in OneSlot : CreateDone(r)
    \/ \E r \in OneSlot : StoreFail(r)
    \/ \E r \in OneSlot, throws \in BOOLEAN : Respond(r, throws)

Spec == Init /\ [][Next]_vars

----------------------------------------------------------------------------
(* The send route under every kind of request body *)

SendReceivers == {"u1", "u2", UnknownUser, MalformedId}

\* one request per run: requests share nothing but the store and the registry
NextSend ==
    \/ \E s \in Sockets : Connect(s)
    \/ \E s \in Sockets : Disconnect(s)
    \/ \E r \in OneSlot, b \in SendReceivers, t \in Texts(MaxTextLen), img \in Images :
          req[r].pc = "free" /\ Start(r, "u1", b, t, img)
    \/ \E r \in OneSlot : UploadDone(r)
    \/ \E r \in OneSlot : UploadFail(r)
    \/ \E r \in OneSlot : FindDone(r)
    \/ \E r \in OneSlot : CreateDone(r)
    \/ \E r \in OneSlot : StoreFail(r)
    \/ \E r \in OneSlot, throws \in BOOLEAN : Respond(r, throws)

SpecSend == Init /\ [][NextSend]_vars

----------------------------------------------------------------------------
(* A client reading a conversation page by page while sends go on *)

\* GetConversation without a cursor
PageFirst(a, b, rawLimit, tb) ==
    /\ LET res == GetMessagesBetweenUsers(store, a, b, rawLimit, NoCursor, tb)
       IN  pager' = [active |-> TRUE, a |-> a, b |-> b, rawLimit |-> rawLimit,
                     cursor |-> res.nextCursor, pages |-> <<res.messages>>,
                     sizes |-> <<Len(store)>>, before |-> NoCursor, last |-> res]
    /\ UNCHANGED <<lastDelete, http, lastPartners, broadcasts, store, clock, userSocketMap, sockState, onlineUsers, events,
                   req, lastQuery>>

\* GetConversation with before = the previous page's nextCursor
PageNext(tb) ==
    /\ pager.active
    /\ pager.cursor # NoCursor
    /\ LET res == GetMessagesBetweenUsers(store, pager.a, pager.b, pager.rawLimit,
                                          pager.cursor, tb)
       IN  pager' = [pager EXCEPT !.cursor = res.nextCursor,
                                  !.pages = Append(@, res.messages),
                                  !.sizes = Append(@, Len(store)),
                                  !.before = pager.cursor, !.last = res]
    /\ UNCHANGED <<lastDelete, http, lastPartners, broadcasts, store, clock, userSocketMap, sockState, onlineUsers, events,
                   req, lastQuery>>

PagerLimits == {RawNum(1), RawNum(2), RawNum(-1)}

NextPaging ==
    \/ Tick
    \/ \E r \in OneSlot, a \in Senders :
          \E b \in Receivers \ {a} : Room(MaxPagedMsgs) /\ Start(r, a, b, <<"a">>, NoImage)
    \/ \E r \in OneSlot : FindDone(r)
    \/ \E r \in OneSlot : CreateDone(r)
    \/ \E r \in OneSlot : StoreFail(r)
    \/ \E r \in OneSlot : Respond(r, FALSE)
    \/ \E l \in PagerLimits, tb \in TieBreaks : PageFirst("u1", "u2", l, tb)
    \/ \E tb \in TieBreaks : PageNext(tb)

SpecPaging == Init /\ [][NextPaging]_vars

----------------------------------------------------------------------------
(* middleware/timeout.middleware.js: the timer of a request and the events  *)
(* of its response                                                          *)

TimeoutBody ==
    [kind |-> "error", success |-> FALSE,
     message |-> "Request timeout - operation took too long"]

OnTimeoutSilent(h) == [h EXCEPT !.timer = "fired"]

\* the setTimeout callback: if (!res.headersSent) { warn; res.status(408).json }
OnTimeout(h) ==
    IF ~h.headersSent
    THEN [h EXCEPT !.timer = "fired", !.warned = @ + 1, !.headersSent = TRUE,
                   !.status = 408, !.body = TimeoutBody, !.sent = @ + 1]
    ELSE [h EXCEPT !.timer = "fired"]

ClearNothing(t) == t

\* clearTimeout(timer): a timer that has not run yet never will
ClearTimeout(t) == IF t = "armed" THEN "cleared" ELSE t

\* the timeout expires and the callback runs; handlerAt keeps where the
\* handler was at that moment, for inspection
TimerFires(r) ==
    /\ http[r].timer = "armed"
    /\ http' = [http EXCEPT ![r] = [OnTimeout(@) EXCEPT !.handlerAt = req[r].pc]]
    /\ UNCHANGED <<lastDelete, store, clock, userSocketMap, sockState, onlineUsers, events,
                   req, lastQuery, pager, lastPartners, broadcasts>>

\* res.on("finish"): the response has been handed over in full
ResponseFinish(r) ==
    /\ http[r].headersSent
    /\ ~http[r].finished
    /\ ~http[r].closed
    /\ http' = [http EXCEPT ![r] = [@ EXCEPT !.finished = TRUE,
                                              !.timer = ClearTimeout(@)]]
    /\ UNCHANGED <<lastDelete, store, clock, userSocketMap, sockState, onlineUsers, events,
                   req, lastQuery, pager, lastPartners, broadcasts>>

\* res.on("close"): the connection of the request is gone
ConnectionClose(r) ==
    /\ http[r].timer # "idle"
    /\ ~http[r].closed
    /\ http' = [http EXCEPT ![r] = [@ EXCEPT !.closed = TRUE,
                                              !.timer = ClearTimeout(@)]]
    /\ UNCHANGED <<lastDelete, store, clock, userSocketMap, sockState, onlineUsers, events,
                   req, lastQuery, pager, lastPartners, broadcasts>>

TimeoutTexts == {<<"a">>, EmptyText}

\* sends under the request timeout; a slot takes its next request once the
\* timer of the last one is settled
NextTimeout ==
    \/ \E r \in OneSlot, t \in TimeoutTexts, a \in Senders :
          \E b \in Receivers \ {a} :
             /\ Room(MaxMsgs)
             /\ http[r].timer # "armed"
             /\ Start(r, a, b, t, NoImage)
    \/ \E r \in OneSlot : FindDone(r)
    \/ \E r \in OneSlot : CreateDone(r)
    \/ \E r \in OneSlot : StoreFail(r)
    \/ \E r \in OneSlot : Respond(r, FALSE)
    \/ \E r \in OneSlot : TimerFires(r)
    \/ \E r \in OneSlot : ResponseFinish(r)
    \/ \E r \in OneSlot : ConnectionClose(r)

SpecTimeout == Init /\ [][NextTimeout]_vars

----------------------------------------------------------------------------
(* MessageService.getChatPartners: the aggregation, stage by stage *)

MatchUserAsSender(st, u) == {i \in DOMAIN st : st[i].senderId = ObjectId(u)}

\* $match: { $or: [{ senderId: U }, { receiverId: U }] }
MatchUser(st, u) ==
    {i \in DOMAIN st : st[i].senderId = ObjectId(u) \/ st[i].receiverId = ObjectId(u)}

\* $project partnerId: $cond senderId = U then receiverId else senderId
PartnerId(m, u) == IF m.senderId = ObjectId(u) THEN m.receiverId ELSE m.senderId

LastOfGroup(docs) == docs[Len(docs)]

\* $group: lastMessage: { $first: "$lastMessage" }
FirstOfGroup(docs) == docs[1]

\* $group hands its groups on in an order the database does not promise
GroupOrders == {"asc", "desc"}

UserSeq == <<ObjectId("u1"), ObjectId("u2"), ObjectId("u3")>>

\* $group by partnerId over the sorted documents: [id, lastMessage] per group
GroupByPartner(st, sorted, u, go) ==
    LET ids    == {PartnerId(st[i], u) : i \in Range(sorted)}
        inSeq  == SelectSeq(UserSeq, LAMBDA p : p \in ids)
        groups == IF go = "asc" THEN inSeq ELSE Reverse(inSeq)
    IN  [k \in 1..Len(groups) |->
            [id          |-> groups[k],
             lastMessage |-> FirstOfGroup(SelectSeq(sorted,
                                LAMBDA i : PartnerId(st[i], u) = groups[k]))]]

\* $lookup from users, then $unwind: a group without its user document goes
LookupUnwind(groups) == SelectSeq(groups, LAMBDA g : IdString(g.id) \in Users)

FinalSortNone(st, groups, tb) == groups

\* $sort: { "lastMessage.createdAt": -1 }
FinalSort(st, groups, tb) ==
    SortSeq(groups, LAMBDA g, h : Precedes(st, g.lastMessage, h.lastMessage, tb))

\* partnersWithStringIds
PartnerToPlain(st, g) == [id |-> IdString(g.id), lastMessage |-> ToPlain(st[g.lastMessage])]

\* MessageService.getChatPartners
GetChatPartners(st, u, tb, go, tb2) ==
    LET sorted == SortDesc(st, MatchUser(st, u), tb)
        groups == LookupUnwind(GroupByPartner(st, sorted, u, go))
        final  == FinalSort(st, groups, tb2)
    IN  [k \in 1..Len(final) |-> PartnerToPlain(st, final[k])]

\* Stores for the checks of getChatPartners: every sequence of up to
\* MaxPartnerMsgs messages between two different users; the timestamps
\* need not follow the order in which the writes landed
Shapes ==
    {[senderId |-> ObjectId(a), receiverId |-> ObjectId(b), createdAt |-> t] :
        a \in Users, b \in Users, t \in 0..1}

FromShapes(sh) ==
    [i \in 1..Len(sh) |->
        [id         |-> i,
         senderId   |-> sh[i].senderId,
         receiverId |-> sh[i].receiverId,
         text       |-> <<"a">>,
         image      |-> "",
         createdAt  |-> sh[i].createdAt]]

PartnerStores ==
    {FromShapes(sh) :
        sh \in UNION {[1..n -> {x \in Shapes : x.senderId # x.receiverId}] :
                        n \in 0..MaxPartnerMsgs}}

\* A getChatPartners call; the result is kept for inspection
ChatPartners(u, tb, go, tb2) ==
    /\ lastPartners' = [valid |-> TRUE, user |-> u,
                        result |-> GetChatPartners(store, u, tb, go, tb2)]
    /\ UNCHANGED <<lastDelete, http, store, clock, userSocketMap, sockState, onlineUsers, events,
                   req, lastQuery, pager, broadcasts>>

InitPartners == store \in PartnerStores /\ InitRest

\* one call per store: the calls do not change the store
NextPartners ==
    /\ ~lastPartners.valid
    /\ \E u \in {"u1", "u2"}, tb \in TieBreaks, go \in GroupOrders, tb2 \in TieBreaks :
           ChatPartners(u, tb, go, tb2)

SpecPartners == InitPartners /\ [][NextPartners]_vars

----------------------------------------------------------------------------
(* Claims about the page query, checked under SpecPage *)

ConvIds(st, a, b) == {i \in DOMAIN st : InConversation(st[i], a, b)}

LimitInRange(raw) == raw.kind = "num" /\ raw.n >= 1 /\ raw.n <= maxLimit

NonEmptyPageInRange ==
    /\ lastQuery.valid
    /\ LimitInRange(lastQuery.rawLimit)
    /\ Len(lastQuery.result.messages) > 0

PageOldest == store[lastQuery.result.messages[1]].createdAt

StrictlyOlderExists ==
    \E i \in ConvIds(store, lastQuery.a, lastQuery.b) : store[i].createdAt < PageOldest

\* C2 as claimed: on a non-empty page of a call with a limit within range,
\* hasMore is false exactly when the store holds no message of the
\* conversation strictly older than the oldest message of the page.
C2_HasMoreIffStrictlyOlder ==
    NonEmptyPageInRange =>
        (lastQuery.result.hasMore = FALSE <=> ~StrictlyOlderExists)

\* C2 as amended: on a non-empty page of a call with a limit within range,
\* hasMore is false exactly when the store holds no message of the
\* conversation outside the page whose timestamp is at or before that of
\* the oldest message of the page.
C2_HasMoreIffOutsidePage ==
    NonEmptyPageInRange =>
        (lastQuery.result.hasMore = FALSE <=>
            ~\E i \in ConvIds(store, lastQuery.a, lastQuery.b)
                        \ Range(lastQuery.result.messages) :
                store[i].createdAt <= PageOldest)

C2_Witness ==
    /\ NonEmptyPageInRange
    /\ lastQuery.before # NoCursor
    /\ lastQuery.result.hasMore
    /\ ~StrictlyOlderExists

SameCallWithLimit(n) ==
    GetMessagesBetweenUsers(store, lastQuery.a, lastQuery.b, RawNum(n),
                            lastQuery.before, lastQuery.tb)

\* C3 as claimed: a call with a negative limit returns the same messages,
\* hasMore and nextCursor as the same call with limit = 50.
C3_NegativeLimitIsDefault ==
    (lastQuery.valid /\ lastQuery.rawLimit.kind = "num" /\ lastQuery.rawLimit.n < 0)
        => lastQuery.result = SameCallWithLimit(defaultLimit)

\* C4 as claimed: a limit above 100 gives the result of limit = 100, a
\* missing, zero or non-numeric limit gives the result of limit = 50, and no
\* page holds more than 100 messages.
C4_ClampedAndBounded ==
    lastQuery.valid =>
        /\ (lastQuery.rawLimit.kind = "num" /\ lastQuery.rawLimit.n > maxLimit)
              => lastQuery.result = SameCallWithLimit(maxLimit)
        /\ (lastQuery.rawLimit \in {RawAbsent, RawJunk, RawNum(0)})
              => lastQuery.result = SameCallWithLimit(defaultLimit)
        /\ Len(lastQuery.result.messages) <= maxLimit

----------------------------------------------------------------------------
(* Claims about the presence registry, checked under Spec *)

\* C1 as claimed: when a connection h1 of user U disconnects while the
\* registry holds another handle h2 for U, the entry U -> h2 stays and U
\* stays in the online set.
C1_StaleDisconnectKeepsEntry ==
    [][\A s \in Sockets :
         (/\ sockState[s] = "connected"
          /\ sockState'[s] = "closed"
          /\ userSocketMap[SockUser[s]] \notin {s, NoSocket})
         => /\ userSocketMap'[SockUser[s]] = userSocketMap[SockUser[s]]
            /\ SockUser[s] \in onlineUsers']_vars

----------------------------------------------------------------------------
(* Claims about reading page by page, checked under SpecPaging *)

\* C5: the pages a client got by a call without a cursor followed by calls
\* with the previous page's nextCursor share no message id, whatever sends
\* happened between the calls.
C5_PagesDisjoint ==
    \A i, j \in DOMAIN pager.pages :
        i < j => Range(pager.pages[i]) \cap Range(pager.pages[j]) = {}

\* two non-empty pages with a message stored between the two calls
C5_Witness ==
    /\ Len(pager.pages) >= 2
    /\ pager.pages[1] # <<>>
    /\ pager.pages[2] # <<>>
    /\ pager.sizes[2] > pager.sizes[1]

----------------------------------------------------------------------------
(* Claims about the push of a sent message, checked under Spec *)

Done(r) == req[r].pc = "done"

Persisted(r) ==
    /\ req[r].msg \in DOMAIN store
    /\ req[r].body = MessageBody(ToPlain(store[req[r].msg]))

Succeeded(r) == Done(r) /\ req[r].status = 201 /\ Persisted(r)

\* C6: when the push of a sent message throws, the message is in the store
\* and the sender gets the 201 response that carries the persisted message.
C6_PushFailureKeepsOutcome ==
    \A r \in Reqs : (Done(r) /\ req[r].pushed = "failed") => Succeeded(r)

C6_Witness ==
    \E r \in Reqs : Done(r) /\ req[r].pushed = "failed" /\ userSocketMap[req[r].receiver] # NoSocket

\* the receiver's registry entry was h when the send arrived and stayed h
\* until the response
RegisteredThroughout(r, h) == req[r].reg0 = h /\ req[r].stable

FullPayload(r) ==
    /\ req[r].body.message.id = req[r].msg
    /\ req[r].body.message.senderId = req[r].sender
    /\ req[r].body.message.receiverId = req[r].receiver
    /\ req[r].body.message.text = req[r].text

Received(r, h) == [to |-> h, payload |-> req[r].body.message] \in events

\* C7 as claimed: a successful send to a receiver whose registry entry is h
\* from the send's start to its end puts on h a newMessage event whose
\* payload is the persisted message returned to the sender.
C7_RegisteredReceiverGetsEvent ==
    \A r \in Reqs, h \in Sockets :
        (Succeeded(r) /\ RegisteredThroughout(r, h))
            => (Received(r, h) /\ FullPayload(r))

\* C7 as amended: the same, unless the emit throws; then the send succeeds
\* all the same and h gets no event.
C7_RegisteredReceiverGetsEventUnlessEmitThrows ==
    \A r \in Reqs, h \in Sockets :
        (Succeeded(r) /\ RegisteredThroughout(r, h))
            => /\ FullPayload(r)
               /\ req[r].pushed # "failed" => Received(r, h)
               /\ req[r].pushed = "failed" => ~Received(r, h)

C7_Witness ==
    \E r \in Reqs, h \in Sockets :
        /\ Succeeded(r) /\ RegisteredThroughout(r, h)
        /\ req[r].pushed = "sent"
        /\ Received(r, h)

NoEventFor(r) == \A e \in events : e.payload.id # req[r].msg

InFollowingConversation(r) ==
    \A tb \in TieBreaks :
        req[r].msg \in Range(GetMessagesBetweenUsers(store, req[r].sender, req[r].receiver,
                                                     RawAbsent, NoCursor, tb).messages)

StoreFailed(r) == req[r].body = ErrorBody("Internal Server Error")

\* C8 as claimed: a valid send to a receiver with no registry entry from the
\* send's start to its end succeeds with a persisted message, emits no
\* newMessage event, and the conversation read next holds the message.
C8_OfflineSendSucceeds ==
    \A r \in Reqs :
        (Done(r) /\ RegisteredThroughout(r, NoSocket))
            => (Succeeded(r) /\ NoEventFor(r) /\ InFollowingConversation(r))

\* C8 as amended: the same, unless a store operation of the send fails;
\* then the send fails with a server error and emits no event.
C8_OfflineSendSucceedsUnlessStoreFails ==
    \A r \in Reqs :
        (Done(r) /\ RegisteredThroughout(r, NoSocket))
            => IF StoreFailed(r)
               THEN req[r].status = 500 /\ req[r].pushed = "none"
               ELSE Succeeded(r) /\ NoEventFor(r) /\ InFollowingConversation(r)

C8_Witness ==
    \E r \in Reqs :
        /\ Succeeded(r) /\ RegisteredThroughout(r, NoSocket)
        /\ req[r].pushed = "none"
        /\ InFollowingConversation(r)

----------------------------------------------------------------------------
(* Claims about the content of a send, checked under SpecSend *)

Arrived(r) == req[r].pc # "free"

\* the request was turned down by validateSendMessage and left no trace
RejectedByValidation(r) ==
    /\ Done(r)
    /\ req[r].status = 400
    /\ req[r].body = ErrorBody("Validation failed")
    /\ req[r].msg = 0
    /\ store = <<>>
    /\ events = {}

\* C9: a send with empty text and empty image is answered with the
\* validation error, stores nothing and emits no newMessage event.
C9_EmptyContentRejected ==
    \A r \in Reqs :
        (Arrived(r) /\ req[r].rawText = EmptyText /\ req[r].rawImage = NoImage)
            => RejectedByValidation(r)

C9_Witness ==
    \E r \in Reqs :
        /\ Done(r) /\ req[r].receiver \in Users
        /\ req[r].rawText = EmptyText /\ req[r].rawImage = NoImage
        /\ req[r].status = 400

\* C10: every stored message has a text that is non-empty after trimming
\* or a non-empty image, and a send with whitespace-only text and an empty
\* image is rejected and stores nothing.
C10_StoredContentNonEmpty ==
    /\ \A i \in DOMAIN store : Trim(store[i].text) # EmptyText \/ store[i].image # NoImage
    /\ \A r \in Reqs :
          (Arrived(r) /\ Trim(req[r].rawText) = EmptyText /\ req[r].rawImage = NoImage)
              => (Done(r) /\ req[r].status = 400 /\ req[r].msg = 0 /\ store = <<>>)

C10_Witness ==
    \E r \in Reqs :
        /\ Done(r) /\ req[r].status = 400 /\ store = <<>>
        /\ req[r].rawText # EmptyText /\ Trim(req[r].rawText) = EmptyText
        /\ req[r].rawImage = NoImage

----------------------------------------------------------------------------
(* Claims about the receiver of a send, checked under SpecSend *)

NothingStoredOrPushed(r) == req[r].msg = 0 /\ store = <<>> /\ events = {}

NoSelfMessageStored ==
    \A i \in DOMAIN store : store[i].senderId # store[i].receiverId

SelfSend(r) == Arrived(r) /\ req[r].sender = req[r].receiver

\* the body was over the parser's limit, or the image upload or the
\* receiver lookup failed: a 500 from the server
InfrastructureFailed(r) ==
    /\ req[r].status = 500
    /\ req[r].body \in {ErrorBody("request entity too large"),
                        ErrorBody("Failed to upload image."),
                        ErrorBody("Internal Server Error")}

Unresolved(r) == Arrived(r) /\ req[r].receiver \notin Users

\* C12 as claimed: a send to a receiver identifier that resolves to no
\* known user ends with the not-found error (status 404), leaves the store
\* unchanged and emits no newMessage event.
C12_UnknownReceiverNotFound ==
    \A r \in Reqs :
        Unresolved(r) =>
            /\ NothingStoredOrPushed(r)
            /\ Done(r) => req[r].status = 404

\* C12 as amended: a send to a receiver identifier that resolves to no
\* known user leaves the store unchanged and emits no newMessage event; it
\* ends with status 404 "Receiver not found" when the identifier is well
\* formed, the content is valid and the image upload and the lookup do not
\* fail, with status 400 when the identifier is malformed or the content is
\* invalid, and with status 500 when the body is over the parser's limit or
\* the upload or the lookup fails.
C12_UnknownReceiverFails ==
    \A r \in Reqs :
        Unresolved(r) =>
            /\ NothingStoredOrPushed(r)
            /\ Done(r) =>
                  /\ req[r].status \in {400, 404, 500}
                  /\ req[r].status = 500 => InfrastructureFailed(r)
                  /\ req[r].status = 400 =>
                        \/ ~RouteValidation(req[r].receiver, req[r].rawText, req[r].rawImage).ok
                        \/ ImgTooBig(req[r].image)
                  /\ req[r].status = 404 =>
                        /\ req[r].body = ErrorBody("Receiver not found")
                        /\ IsMongoId(req[r].receiver)

C12_Witness ==
    \E r \in Reqs :
        /\ Unresolved(r) /\ Done(r)
        /\ req[r].status = 404
        /\ req[r].body = ErrorBody("Receiver not found")

----------------------------------------------------------------------------
(* Claims about reading after a send, checked under SpecPaging *)

Last(s) == s[Len(s)]

\* the step is a first-page read with a limit of at least 1
FirstPageRead ==
    /\ pager' # pager
    /\ Len(pager'.pages) = 1
    /\ pager'.rawLimit.kind = "num"
    /\ pager'.rawLimit.n >= 1

\* the send of slot r has succeeded and no message was stored after its own
LatestSendSucceeded(r) == Succeeded(r) /\ req[r].msg = Len(store)

\* C13 as claimed: a first-page read with limit >= 1 made after a send to
\* the conversation succeeded, with no other send in between, returns a page
\* whose last element is the message of that send.
C13_ReadAfterSendEndsWithIt ==
    [][\A r \in Reqs :
         (FirstPageRead /\ LatestSendSucceeded(r))
            => /\ pager'.pages[1] # <<>>
               /\ Last(pager'.pages[1]) = req[r].msg]_vars

----------------------------------------------------------------------------
(* Claims that compare two reads *)

SwappedCall(tb) ==
    GetMessagesBetweenUsers(store, lastQuery.b, lastQuery.a, lastQuery.rawLimit,
                            lastQuery.before, tb)

\* C14 as claimed (under SpecPage): on the same store, with the same limit
\* and cursor, the read of (A, B) and the read of (B, A) return the same set
\* of messages, the same hasMore and the same nextCursor.
C14_SwappedPairSamePage ==
    lastQuery.valid =>
        \A tb \in TieBreaks :
            /\ Range(SwappedCall(tb).messages) = Range(lastQuery.result.messages)
            /\ SwappedCall(tb).hasMore = lastQuery.result.hasMore
            /\ SwappedCall(tb).nextCursor = lastQuery.result.nextCursor

\* the last read of the pager, made again on the store as it is now
SameReadAgain(tb) ==
    GetMessagesBetweenUsers(store, pager.a, pager.b, pager.rawLimit, pager.before, tb)

\* C15 as claimed (under SpecPaging, where nothing is deleted): a read with
\* a cursor, made again with the same pair, limit and cursor, returns the
\* same page, hasMore and nextCursor, whatever was sent in between.
C15_SameCursorSamePage ==
    (pager.active /\ pager.before # NoCursor) =>
        \A tb \in TieBreaks : SameReadAgain(tb) = pager.last

----------------------------------------------------------------------------
(* Claims about getChatPartners, checked under SpecPartners *)

PartnersResult == lastPartners.result

PartnerIds == {PartnersResult[k].id : k \in DOMAIN PartnersResult}

\* the messages of the store between users u and v, in either direction
Between(u, v) == ConvIds(store, u, v)

\* the users other than u with whom u has exchanged a message
Counterparts(u) == {v \in Users \ {u} : Between(u, v) # {}}

\* C16: getChatPartners never returns two entries with the same partner id,
\* and the entries are in non-increasing order of lastMessage.createdAt.
C16_PartnersUniqueAndOrdered ==
    lastPartners.valid =>
        /\ \A j, k \in DOMAIN PartnersResult :
              j # k => PartnersResult[j].id # PartnersResult[k].id
        /\ \A j, k \in DOMAIN PartnersResult :
              j < k => PartnersResult[j].lastMessage.createdAt
                          >= PartnersResult[k].lastMessage.createdAt

\* two partners, the one with the greater id in front
C16_Witness ==
    /\ lastPartners.valid
    /\ Len(PartnersResult) = 2
    /\ PartnersResult[1].id = "u3"
    /\ PartnersResult[1].lastMessage.createdAt > PartnersResult[2].lastMessage.createdAt

C18_LastMessageIsMostRecent ==
    lastPartners.valid =>
        \A k \in DOMAIN PartnersResult :
            LET e == PartnersResult[k]
                B == Between(lastPartners.user, e.id)
            IN  /\ e.lastMessage.id \in B
                /\ e.lastMessage = ToPlain(store[e.lastMessage.id])
                /\ \A i \in B : store[i].createdAt <= e.lastMessage.createdAt

\* the most recent message with the partner is not the one stored last
C18_Witness ==
    /\ lastPartners.valid
    /\ \E k \in DOMAIN PartnersResult :
          LET e == PartnersResult[k]
          IN  \E i \in Between(lastPartners.user, e.id) :
                 /\ i > e.lastMessage.id
                 /\ store[i].createdAt < e.lastMessage.createdAt

----------------------------------------------------------------------------
(* Claims about registering and removing, checked under Spec *)

Registers(s) == sockState[s] = "new" /\ sockState'[s] = "connected"

Removes(s) == sockState[s] = "connected" /\ sockState'[s] = "closed"

\* C19: right after a connection h of user U registers, the lookup of U
\* returns h; right after the disconnect of h, when the entry of U was still
\* h's, the lookup of U returns nothing.
C19_PresenceRoundTrip ==
    [][\A s \in Sockets :
         /\ Registers(s) => GetReceiverSocketId(userSocketMap', SockUser[s]) = s
         /\ (Removes(s) /\ GetReceiverSocketId(userSocketMap, SockUser[s]) = s)
               => GetReceiverSocketId(userSocketMap', SockUser[s]) = NoSocket]_vars

\* a connection of u2 has come and gone, the only one u2 ever made
C19_Witness ==
    /\ sockState["s2"] = "closed"
    /\ sockState["s3"] = "new"
    /\ GetReceiverSocketId(userSocketMap, "u2") = NoSocket
    /\ "u2" \notin onlineUsers

\* C20: the registry holds at most one handle per user, a handle of that
\* user, and when a user who has an entry connects again the lookup returns
\* the handle of the new connection.
C20_LastRegistrationWins ==
    [][/\ \A u \in Users :
             \/ userSocketMap'[u] = NoSocket
             \/ userSocketMap'[u] \in Sockets /\ SockUser[userSocketMap'[u]] = u
       /\ \A s \in Sockets :
             (Registers(s) /\ GetReceiverSocketId(userSocketMap, SockUser[s]) # NoSocket)
                => GetReceiverSocketId(userSocketMap', SockUser[s]) = s]_vars

\* both connections of u2 are open and the registry holds one of them
C20_Witness ==
    /\ sockState["s2"] = "connected"
    /\ sockState["s3"] = "connected"
    /\ GetReceiverSocketId(userSocketMap, "u2") \in {"s2", "s3"}

----------------------------------------------------------------------------
(* Claims about the online users broadcast, checked under Spec *)

\* the users that have a registry entry in map
Registered(map) == {u \in Users : GetReceiverSocketId(map, u) # NoSocket}

ConnectionEvent == \E s \in Sockets : Registers(s) \/ Removes(s)

\* C21: every connect and every disconnect emits exactly one getOnlineUsers
\* broadcast, whose payload is the set of users with a registry entry after
\* the event's change of the registry; no other step broadcasts.
C21_OneBroadcastPerEvent ==
    [][/\ ConnectionEvent =>
             /\ broadcasts' = broadcasts + 1
             /\ onlineUsers' = Registered(userSocketMap')
       /\ ~ConnectionEvent =>
             /\ broadcasts' = broadcasts
             /\ onlineUsers' = onlineUsers]_vars

\* u1 is online, u2 has come and gone: three events, three broadcasts
C21_Witness ==
    /\ sockState["s1"] = "connected"
    /\ sockState["s2"] = "closed"
    /\ broadcasts = 3
    /\ onlineUsers = {"u1"}

----------------------------------------------------------------------------
(* Claims about the response of the conversation route, checked under SpecPage *)

\* C22 as claimed: the response of a conversation read carries hasMore and
\* nextCursor with the page, so a caller whose page has older messages
\* left gets the cursor for the next page.
C22_ResponseCarriesCursor ==
    (lastQuery.valid /\ lastQuery.result.hasMore) =>
        /\ lastQuery.response.body.kind = "object"
        /\ lastQuery.response.body.hasMore = lastQuery.result.hasMore
        /\ lastQuery.response.body.nextCursor = lastQuery.result.nextCursor

----------------------------------------------------------------------------
(* Claims about the request timeout, checked under SpecTimeout *)

\* the timeout of slot r expires in this step
Expires(r) == http[r].timer = "armed" /\ http'[r].timer = "fired"

\* C23: a request whose handler has sent no response when the timeout
\* expires is answered 408 with success false at that moment, so a request
\* whose timeout has expired is never without a response.
C23_TimeoutAnswers408 ==
    [][\A r \in Reqs :
         /\ (Expires(r) /\ ~http[r].headersSent)
               => /\ http'[r].status = 408
                  /\ http'[r].body.success = FALSE
                  /\ http'[r].sent = 1
         /\ http'[r].timer = "fired" => http'[r].headersSent]_vars

\* the timeout answered while the handler was still at work
C23_Witness ==
    \E r \in Reqs :
        /\ http[r].timer = "fired"
        /\ http[r].status = 408
        /\ InFlight(r)
        /\ ~http[r].closed

\* C24 as claimed: at most one response is sent for a request, and a
\* handler that completes after the timeout answered 408 neither sends a
\* second response nor fails while trying to send one.
C24_NoSecondSend ==
    \A r \in Reqs : http[r].sent <= 1 /\ ~http[r].failedSend

\* C25: once the response has finished or the connection has closed, the
\* timeout callback does not run for the request, and a request answered by
\* its handler gets no 408 and no timeout warning.
C25_TimerClearedAfterResponse ==
    [][\A r \in Reqs :
         /\ (http[r].finished \/ http[r].closed) => ~Expires(r)
         /\ (http[r].headersSent /\ http[r].status # 408)
               => /\ http'[r].status = 408 => http'[r].timer = "armed"
                  /\ http'[r].warned <= http[r].warned]_vars

\* the handler answered, the response finished and the timer never ran
C25_Witness ==
    \E r \in Reqs :
        /\ http[r].finished
        /\ http[r].timer = "cleared"
        /\ http[r].status = 201
        /\ http[r].warned = 0

----------------------------------------------------------------------------
(* Claims about who gets a newMessage event, checked under Spec *)

\* C26: a newMessage event is emitted only by a send whose receiver has a
\* registry entry when the controller looks it up, and only to the handle
\* of that entry, a connection of the receiver: never to a connection of
\* the sender or of a third user.
C26_EventOnlyToReceiverEntry ==
    [][\A e \in events' \ events :
         \E r \in Reqs :
            /\ req[r].pc = "respond"
            /\ e.payload = req[r].body.message
            /\ e.to # NoSocket
            /\ e.to = GetReceiverSocketId(userSocketMap, req[r].receiver)
            /\ SockUser[e.to] = req[r].receiver
            /\ SockUser[e.to] # req[r].sender]_vars

\* an event went to a connection of u2 while the sender u1 was connected too
C26_Witness ==
    /\ sockState["s1"] = "connected"
    /\ \E e \in events : SockUser[e.to] = "u2" /\ e.payload.senderId = "u1"

----------------------------------------------------------------------------
(* Claims about reading what was sent, checked under SpecPaging *)

\* the stored messages whose send has been answered
AnsweredSends == {i \in DOMAIN store : \A r \in Reqs : InFlight(r) => req[r].msg # i}

\* the messages of the pager's conversation stored since message i, i included
SentSince(i) == {j \in ConvIds(store, "u1", "u2") : j >= i}

\* C27 as claimed: a first-page read with a limit at least the number of
\* messages sent to the conversation since a successful send, that send
\* included, contains the message of that send.
C27_ReadContainsEverySent ==
    [][\A i \in AnsweredSends \cap ConvIds(store, "u1", "u2") :
         (FirstPageRead /\ pager'.rawLimit.n >= Cardinality(SentSince(i)))
            => i \in Range(pager'.pages[1])]_vars

----------------------------------------------------------------------------
(* MessageService.deleteMessage over the Message collection *)

\* message.text = "This message was deleted"
DeletedText == <<"This message was deleted">>

\* the paths of messageSchema, with _id and the createdAt of timestamps: true
SchemaPaths == {"id", "senderId", "receiverId", "text", "image", "createdAt"}

\* message.text = ...; message.image = ""; message.isDeleted = true
MarkDeleted(doc) ==
    [f \in (DOMAIN doc) \cup {"isDeleted"} |->
        IF f = "isDeleted" THEN TRUE
        ELSE IF f = "text" THEN DeletedText
        ELSE IF f = "image" THEN NoImage
        ELSE doc[f]]

\* message.save(): a strict schema stores the schema's paths and no other
Save(doc) == [f \in (DOMAIN doc) \cap SchemaPaths |-> doc[f]]

\* a messageId that is no ObjectId: findById rejects with a CastError
MalformedMessageId == 0

DeleteOutcomeAnyUser(st, messageId, userId, fails) ==
    IF messageId = MalformedMessageId THEN "CastError"
    ELSE IF fails THEN "failed"
    ELSE IF messageId \notin DOMAIN st THEN "Message not found"
    ELSE "deleted"

DeleteOutcome(st, messageId, userId, fails) ==
    IF messageId = MalformedMessageId THEN "CastError"
    ELSE IF fails THEN "failed"
    ELSE IF messageId \notin DOMAIN st THEN "Message not found"
    ELSE IF IdString(st[messageId].senderId) # IdString(ObjectId(userId))
    THEN "You can only delete your own messages"
    ELSE "deleted"

\* deleteMessage(messageId, userId); fails: findById or save rejects
DeleteMessage(messageId, userId, fails) ==
    LET outcome == DeleteOutcome(store, messageId, userId, fails)
    IN  /\ lastDelete' = [valid |-> TRUE, messageId |-> messageId, userId |-> userId,
                          outcome |-> outcome]
        /\ store' = IF outcome = "deleted"
                    THEN [store EXCEPT ![messageId] = Save(MarkDeleted(@))]
                    ELSE store
        /\ UNCHANGED <<clock, userSocketMap, sockState, onlineUsers, events, req,
                       lastQuery, pager, lastPartners, broadcasts, http>>

DeleteImages == {NoImage, "dataUrl"}

DeleteTexts == {<<"a">>, EmptyText}

NextDelete ==
    \/ \E r \in OneSlot, a \in Senders, t \in DeleteTexts, img \in DeleteImages :
          \E b \in Receivers \ {a} : Room(MaxMsgs) /\ Start(r, a, b, t, img)
    \/ \E r \in OneSlot : UploadDone(r)
    \/ \E r \in OneSlot : FindDone(r)
    \/ \E r \in OneSlot : CreateDone(r)
    \/ \E r \in OneSlot : Respond(r, FALSE)
    \/ \E i \in {MalformedMessageId} \cup 1..(MaxMsgs + 1), u \in Senders, fails \in BOOLEAN :
          DeleteMessage(i, u, fails)

SpecDelete == Init /\ [][NextDelete]_vars

----------------------------------------------------------------------------
(* Claims about deleting a message, checked under SpecDelete *)

\* the step is a deleteMessage of message i by its sender that went through
Deletes(i) ==
    /\ lastDelete'.valid
    /\ lastDelete'.outcome = "deleted"
    /\ lastDelete'.messageId = i
    /\ lastDelete' # lastDelete

\* C28 as claimed: deleteMessage by the sender leaves the stored message
\* with empty text, empty image and its deleted flag set, and with the id,
\* senderId, receiverId and createdAt it had.
C28_SoftDeleteBlanksAndFlags ==
    [][\A i \in DOMAIN store :
         Deletes(i) =>
            /\ store'[i].text = EmptyText
            /\ store'[i].image = NoImage
            /\ "isDeleted" \in DOMAIN store'[i]
            /\ store'[i].isDeleted
            /\ store'[i].id = store[i].id
            /\ store'[i].senderId = store[i].senderId
            /\ store'[i].receiverId = store[i].receiverId
            /\ store'[i].createdAt = store[i].createdAt]_vars

----------------------------------------------------------------------------
(* Claims about a failed write of a send, checked under Spec *)

\* the step is the rejection of request r's Message.create
WriteFails(r) == req[r].pc = "create" /\ req'[r].pc # "create" /\ req'[r].pc # "respond"

\* request r ended on a rejected Message.create: it failed after FindDone
\* had stamped it at a clock above 0
WriteFailed(r) == Done(r) /\ StoreFailed(r) /\ req[r].createdAt > 0

\* C29: when the Message.create of a send rejects, the send ends there with
\* the generic 500 error, the store holds what it held, no message is
\* attributed to the request and no newMessage event is emitted.
C29_FailedWriteFailsSend ==
    [][\A r \in Reqs :
         WriteFails(r) =>
            /\ req'[r].pc = "done"
            /\ req'[r].status = 500
            /\ req'[r].body = ErrorBody("Internal Server Error")
            /\ req'[r].msg = 0
            /\ req'[r].pushed = "none"
            /\ store' = store
            /\ events' = events]_vars

C29_Witness ==
    \E r \in Reqs :
        /\ WriteFailed(r)
        /\ req[r].status = 500 /\ req[r].msg = 0
        /\ NoEventFor(r)

----------------------------------------------------------------------------
(* Claims about what the send route lets through, checked under SpecSend *)

\* the request got past validateSendMessage to the controller
PassedValidation(r) == Arrived(r) /\ req[r].body # ErrorBody("Validation failed")

WellFormedRequest(r) ==
    /\ req[r].receiver # MalformedId
    /\ Len(Trim(req[r].rawText)) <= maxTextChars
    /\ req[r].rawImage \in {NoImage, "dataUrl"}

----------------------------------------------------------------------------
(* Claims about the content of a page, checked under SpecPage *)

\* the messages the last call's query matches
LastEligible == Eligible(store, lastQuery.a, lastQuery.b, lastQuery.before)

LastPage == lastQuery.result.messages

ValidLimitCall == lastQuery.valid /\ LimitInRange(lastQuery.rawLimit)

\* C31: with a limit L from 1 to 100, the page holds min(L, n) of the n
\* eligible messages, none twice, no eligible message left out is newer
\* than a message of the page, and the page is in ascending createdAt order.
C31_PageIsMostRecentAscending ==
    ValidLimitCall =>
        /\ Len(LastPage) = Min(lastQuery.rawLimit.n, Cardinality(LastEligible))
        /\ Cardinality(Range(LastPage)) = Len(LastPage)
        /\ Range(LastPage) \subseteq LastEligible
        /\ \A i \in Range(LastPage), j \in LastEligible \ Range(LastPage) :
              store[i].createdAt >= store[j].createdAt
        /\ \A k, l \in DOMAIN LastPage :
              k < l => store[LastPage[k]].createdAt <= store[LastPage[l]].createdAt

C31_Witness ==
    /\ ValidLimitCall
    /\ lastQuery.rawLimit.n = 2
    /\ Len(LastPage) = 2
    /\ Cardinality(LastEligible) > 2
    /\ store[LastPage[1]].createdAt < store[LastPage[2]].createdAt

\* C32 as claimed: in every result hasMore is true exactly when more
\* messages than the limit were eligible; when hasMore is true nextCursor is
\* the createdAt of the oldest message of the page, and when it is false
\* nextCursor is null.
C32_HasMoreAndCursor ==
    lastQuery.valid =>
        /\ lastQuery.result.hasMore
              <=> Cardinality(LastEligible) > EffectiveLimit(lastQuery.rawLimit)
        /\ lastQuery.result.hasMore =>
              /\ Len(LastPage) > 0
              /\ lastQuery.result.nextCursor = ToISOString(store[LastPage[1]].createdAt)
        /\ ~lastQuery.result.hasMore => lastQuery.result.nextCursor = NoCursor

\* the two identities of stored message i
Parties(i) == {IdString(store[i].senderId), IdString(store[i].receiverId)}

\* C33: every message of a page of GetConversation(A, B, before = c) has
\* A and B as its sender and receiver, in either order, and, when a cursor
\* is given, a createdAt strictly below the cursor.
C33_PageWithinPairAndCursor ==
    lastQuery.valid =>
        \A i \in Range(LastPage) :
            /\ Parties(i) = {lastQuery.a, lastQuery.b}
            /\ lastQuery.before # NoCursor => store[i].createdAt < lastQuery.before.ms

C33_Witness ==
    /\ lastQuery.valid
    /\ lastQuery.before # NoCursor
    /\ Len(LastPage) > 0
    /\ \E j \in DOMAIN store :
          "u3" \in Parties(j) /\ lastQuery.a \in Parties(j)
    /\ \E j \in ConvIds(store, lastQuery.a, lastQuery.b) :
          store[j].createdAt = lastQuery.before.ms

----------------------------------------------------------------------------
(* Claims about the order and the number of pushes, checked under Spec *)

\* the receiver of payload p reads the conversation with the default limit
ReceiverReadFinds(st, p) ==
    \A tb \in TieBreaks :
        p.id \in Range(GetMessagesBetweenUsers(st, p.receiverId, p.senderId,
                                               RawAbsent, NoCursor, tb).messages)

\* C34: whenever a newMessage event is emitted, its message is in the store
\* before the emitting step, and the conversation read by the receiver, then
\* and after the step, holds it.
C34_PersistPrecedesPush ==
    [][\A e \in events' \ events :
         /\ e.payload.id \in DOMAIN store
         /\ ReceiverReadFinds(store, e.payload)
         /\ ReceiverReadFinds(store', e.payload)]_vars

C34_Witness ==
    /\ Len(store) = MaxMsgs
    /\ \E e \in events : e.payload.id = 1 /\ ReceiverReadFinds(store, e.payload)

\* the events emitted so far for stored message i
EventsOf(evs, i) == {e \in evs : e.payload.id = i}

\* C35: a send emits at most one newMessage event for its message: the step
\* that pushes, whether the emit succeeds or throws, ends the request, adds
\* at most one event, and no message ever has two events.
C35_AtMostOnePush ==
    [][/\ \A r \in Reqs :
             (/\ req[r].pc = "respond"
              /\ \/ req'[r].pc # "respond"
                 \/ req'[r].pushed # req[r].pushed
                 \/ events' # events)
                => /\ req'[r].pc = "done"
                   /\ Cardinality(events' \ events) <= 1
                   /\ \A e \in events' \ events : e.payload.id = req[r].msg
       /\ events' # events => \E r \in Reqs : req[r].pc = "respond"
       /\ \A i \in DOMAIN store' : Cardinality(EventsOf(events', i)) <= 1]_vars

C35_Witness ==
    /\ \E r \in Reqs : Done(r) /\ req[r].pushed = "failed" /\ EventsOf(events, req[r].msg) = {}
    /\ \E i \in DOMAIN store : Cardinality(EventsOf(events, i)) = 1

----------------------------------------------------------------------------
(* Claims about work after the timeout, checked under SpecTimeout *)

\* the sender of request r has the 408 answer
TimedOut(r) == http[r].timer = "fired" /\ http[r].status = 408 /\ http[r].sent = 1

\* C36: the timeout answer cancels nothing: a request answered 408 while
\* its Message.create is pending can still have the message written, and a
\* message written after the 408 is in the conversation read next.
C36_TimeoutDoesNotCancelWrite ==
    \A r \in Reqs :
        /\ (TimedOut(r) /\ req[r].pc = "create") => ENABLED CreateDone(r)
        /\ (TimedOut(r) /\ http[r].handlerAt \in {"find", "create"}
               /\ req[r].msg \in DOMAIN store)
              => InFollowingConversation(r)

\* the 408 went out while the write was pending, and the message is stored
C36_Witness ==
    \E r \in Reqs :
        /\ TimedOut(r)
        /\ http[r].handlerAt = "create"
        /\ req[r].msg \in DOMAIN store
        /\ InFollowingConversation(r)

----------------------------------------------------------------------------
(* Claims about who may delete, checked under SpecDelete *)

\* the step is a deleteMessage call
DeleteCall == lastDelete' # lastDelete

CalledByOther ==
    /\ lastDelete'.messageId \in DOMAIN store
    /\ IdString(store[lastDelete'.messageId].senderId) # lastDelete'.userId

CalledOnUnknown ==
    /\ lastDelete'.messageId # MalformedMessageId
    /\ lastDelete'.messageId \notin DOMAIN store

\* C37 as claimed: deleteMessage goes through only for the sender of the
\* message; a call by another user fails with the BadRequestError, a call
\* for an unknown id with the NotFoundError, and both leave the store as
\* it was.
C37_OnlySenderDeletes ==
    [][DeleteCall =>
         /\ lastDelete'.outcome = "deleted" => ~CalledByOther /\ ~CalledOnUnknown
         /\ CalledByOther =>
               /\ lastDelete'.outcome = "You can only delete your own messages"
               /\ store' = store
         /\ CalledOnUnknown =>
               /\ lastDelete'.outcome = "Message not found"
               /\ store' = store]_vars

\* C37 as amended: the same, unless findById itself rejects; then the call
\* fails with that error. Every call that does not go through leaves the
\* store as it was.
C37_OnlySenderDeletesUnlessLookupFails ==
    [][DeleteCall =>
         /\ lastDelete'.outcome = "deleted" =>
               /\ lastDelete'.messageId \in DOMAIN store
               /\ ~CalledByOther
         /\ CalledByOther =>
               lastDelete'.outcome \in {"You can only delete your own messages", "failed"}
         /\ CalledOnUnknown =>
               lastDelete'.outcome \in {"Message not found", "failed"}
         /\ lastDelete'.outcome # "deleted" => store' = store]_vars

C37_Witness ==
    /\ lastDelete.valid
    /\ lastDelete.outcome = "You can only delete your own messages"
    /\ lastDelete.messageId \in DOMAIN store
    /\ IdString(store[lastDelete.messageId].senderId) # lastDelete.userId
    /\ store[lastDelete.messageId].text # DeletedText

----------------------------------------------------------------------------
(* Claims about a whole walk through a conversation, checked under SpecPaging *)

\* the walk ran to a page with hasMore = false, with a limit from 1 to 100,
\* and no message was stored between its first call and now
QuietWalkFinished ==
    /\ pager.active
    /\ LimitInRange(pager.rawLimit)
    /\ ~pager.last.hasMore
    /\ \A k \in DOMAIN pager.sizes : pager.sizes[k] = Len(store)

PagedIds == UNION {Range(pager.pages[k]) : k \in DOMAIN pager.pages}

\* C38 as claimed: a walk page by page with no write in between returns
\* every message of the conversation, each in exactly one page, also when
\* messages share a createdAt.
C38_WalkReturnsEveryMessageOnce ==
    QuietWalkFinished =>
        /\ PagedIds = ConvIds(store, pager.a, pager.b)
        /\ \A k \in DOMAIN pager.pages :
              Cardinality(Range(pager.pages[k])) = Len(pager.pages[k])
        /\ \A k, l \in DOMAIN pager.pages :
              k < l => Range(pager.pages[k]) \cap Range(pager.pages[l]) = {}

----------------------------------------------------------------------------
(* Claims about the image of a send, checked under SpecSend *)

\* C40 as claimed: a send whose image fails the format check ends with
\* status 400, one whose image exceeds the 5 MB size check ends with status
\* 400, one whose upload fails ends with status 500; in each case the
\* message service is not called, nothing is stored and nothing is emitted.
C40_BadImageEndsBeforeService ==
    \A r \in Reqs :
        Arrived(r) =>
            /\ req[r].rawImage \in {"blank", "notImage"}
                  => (Done(r) /\ req[r].status = 400 /\ NothingStoredOrPushed(r))
            /\ req[r].rawImage = "hugeDataUrl"
                  => (Done(r) /\ req[r].status = 400 /\ NothingStoredOrPushed(r))
            /\ req[r].body = ErrorBody("Failed to upload image.")
                  => (Done(r) /\ req[r].status = 500 /\ NothingStoredOrPushed(r))

----------------------------------------------------------------------------
(* Claims about the handles the registry holds, checked under Spec *)

\* C39: every registry entry of a user holds a socket of that user that is
\* connected: no entry holds a socket whose disconnect has been handled.
C39_RegistryHoldsLiveHandles ==
    \A u \in Users :
        userSocketMap[u] # NoSocket =>
            /\ userSocketMap[u] \in Sockets
            /\ SockUser[userSocketMap[u]] = u
            /\ sockState[userSocketMap[u]] = "connected"

\* one connection of u2 is gone and the registry holds the other, open one
C39_Witness ==
    /\ sockState["s2"] = "closed"
    /\ sockState["s3"] = "connected"
    /\ userSocketMap["u2"] = "s3"
    /\ \E e \in events : e.to = "s3"

====
